---- MODULE Spec2Model ----
(***************************************************************************)
(* Model of PerceptualHasher (src/src/perceptual.rs): the DCT based        *)
(* perceptual hash with its two entry points hash_from_img and             *)
(* hash_from_path.  A call is executed statement by statement; `pc` is the *)
(* position of the running call.  f64 values are modelled by integers:     *)
(* the samples are exact, a cosine is a fixed-point number with CosScale   *)
(* as its unit, so a coefficient carries the unit CosScale^2, and the      *)
(* median carries twice that unit (it may be a half of an integer).        *)
(***************************************************************************)
EXTENDS Integers, Sequences, FiniteSets, TLC

\* ------------------------------------------------------------------ bounds
\* width and height of a modelled configuration range over 0..MaxDim
MaxDim == 3
\* factor of a modelled configuration ranges over 0..MaxFactor
MaxFactor == 2
\* decoded images are numbered 0..MaxSeed (image 0 is uniformly black)
MaxSeed == 2

\* ------------------------------------------------------- program constants
\* 2^16: a u32 is two 16-bit halves (the fields are u32)
Half == 65536
\* u8 samples are taken modulo 2^8 (as_bytes yields u8)
ByteRange == 256
\* unit of a fixed-point cosine
CosScale == 100
\* unit of the fixed-point angle arithmetic inside Cos
Q == 10000
\* pi in units of Q
PiQ == 31416

\* --------------------------------------------------------------- helpers
Min(a, b) == IF a < b THEN a ELSE b

RECURSIVE SumSeq(_)
SumSeq(s) == IF Len(s) = 0 THEN 0 ELSE Head(s) + SumSeq(Tail(s))

RECURSIVE FlattenSeq(_)
FlattenSeq(rows) ==
    IF Len(rows) = 0 THEN <<>> ELSE Head(rows) \o FlattenSeq(Tail(rows))

\* -------------------------------------------------------------- u32 fields
\* The modelled u32 values are at most 2^16, which keeps every product below
\* inside the model's integers; 2^16 * 2^16 is the product that leaves u32.
MulOverflows(a, b) == (a \div Half) * (b \div Half) > 0

\* a * b modulo 2^32, by 16-bit halves (a, b <= 2^16)
WrappingMul(a, b) ==
    LET ah == a \div Half
        al == a % Half
        bh == b \div Half
        bl == b % Half
    IN  ((ah * bl + al * bh) % Half) * Half + al * bl

\* ---------------------------------------------------------------- cosine
\* cos(x) and sin(x) for 0 <= x <= pi/4, x and the result in units of Q
CosSeries(x) ==
    LET x2 == (x * x) \div Q
        x4 == (x2 * x2) \div Q
        x6 == (x4 * x2) \div Q
    IN  Q - x2 \div 2 + x4 \div 24 - x6 \div 720

SinSeries(x) ==
    LET x2 == (x * x) \div Q
        x3 == (x2 * x) \div Q
        x5 == (x3 * x2) \div Q
        x7 == (x5 * x2) \div Q
    IN  x - x3 \div 6 + x5 \div 120 - x7 \div 5040

\* cos(pi * j / (2 n)) for 0 <= j <= n, in units of CosScale, rounded
QuarterCos(j, n) ==
    LET c == IF 2 * j <= n
             THEN CosSeries((PiQ * j) \div (2 * n))
             ELSE SinSeries((PiQ * (n - j)) \div (2 * n))
    IN  (c * CosScale + Q \div 2) \div Q

\* cos(pi * m / (2 n)) for any m >= 0, in units of CosScale
Cos(m, n) ==
    LET r == m % (4 * n)
    IN  IF r <= n THEN QuarterCos(r, n)
        ELSE IF r <= 2 * n THEN 0 - QuarterCos(2 * n - r, n)
        ELSE IF r <= 3 * n THEN 0 - QuarterCos(r - 2 * n, n)
        ELSE QuarterCos(4 * n - r, n)

\* ------------------------------------------------------------------- DCT
\* y_k = sum_n x_n cos(pi/N (n + 1/2) k), k = 0..N-1 (indices here from 1)
Dct2(xs) ==
    LET n == Len(xs)
        tab == [m \in 0..(4 * n - 1) |-> Cos(m, n)]
    IN  [k \in 1..n |->
            SumSeq([i \in 1..n |-> xs[i] * tab[((2 * i - 1) * (k - 1)) % (4 * n)]])]

\* Axis::Row transforms every row, Axis::Column every column
Dct2OverMatrix(matrix, axis) ==
    IF Len(matrix) = 0 THEN <<>>
    ELSE IF axis = "Row" THEN [r \in 1..Len(matrix) |-> Dct2(matrix[r])]
    ELSE LET cols == Len(matrix[1])
             col == [c \in 1..cols |->
                        Dct2([r \in 1..Len(matrix) |-> matrix[r][c]])]
         IN  [r \in 1..Len(matrix) |-> [c \in 1..cols |-> col[c][r]]]

\* ---------------------------------------------------------------- median
\* Option<f64>: None for an empty slice; `twice` is two times the median
\* (the middle value, or the mean of the two middle values, of the sorted slice)
NoneMedian == [some |-> FALSE, twice |-> 0]

Median(numbers) ==
    IF Len(numbers) = 0 THEN NoneMedian
    ELSE LET sorted == SortSeq(numbers, LAMBDA a, b : a < b)
             n == Len(sorted)
         IN  IF n % 2 = 1
             THEN [some |-> TRUE, twice |-> 2 * sorted[(n + 1) \div 2]]
             ELSE [some |-> TRUE, twice |-> sorted[n \div 2] + sorted[n \div 2 + 1]]

\* ------------------------------------------------------------ data model
\* PerceptualHasher { width, height, factor }: three public u32 fields, no
\* constructor, so a struct literal may hold any values, zero included.
SmallConfigs == [width : 0..MaxDim, height : 0..MaxDim, factor : 0..MaxFactor]

\* configurations (all fields > 0) whose products width*factor, height*factor
\* leave u32
OverflowConfigs ==
    [width : {Half}, height : {1, Half}, factor : {Half}]
        \cup [width : {1}, height : {Half}, factor : {Half}]

Configs == SmallConfigs \cup OverflowConfigs

Default == [width |-> 8, height |-> 8, factor |-> 4]

ValidConfig(h) == h.width > 0 /\ h.height > 0 /\ h.factor > 0

\* bytes one pixel of the converted image occupies in as_bytes(): 1 for an
\* 8-bit luma buffer, 2 for a buffer that keeps a second channel or 16 bits
SampleWidths == {1, 2}

\* a decoded image::DynamicImage
Images == [seed : 0..MaxSeed, bpp : SampleWidths]
NoImage == [seed |-> 0, bpp |-> 0]

\* the file system: a path is missing, holds bytes that do not decode, or
\* holds an image
Paths ==
    {[kind |-> "missing", img |-> NoImage], [kind |-> "corrupt", img |-> NoImage]}
        \cup {[kind |-> "image", img |-> i] : i \in Images}
NoPath == [kind |-> "none", img |-> NoImage]

NoErr == [variant |-> "none", inner |-> "none"]
NoHash == <<>>
NoResult == [tag |-> "none", hash |-> NoHash, err |-> NoErr]
Panic(why) == [tag |-> "panic", hash |-> NoHash, err |-> [variant |-> "panic", inner |-> why]]
Err(e) == [tag |-> "Err", hash |-> NoHash, err |-> e]
Ok(h) == [tag |-> "Ok", hash |-> h, err |-> NoErr]
Returned(h) == [tag |-> "hash", hash |-> h, err |-> NoErr]

NoCall == [op |-> "none", path |-> NoPath, img |-> NoImage]
NoRemembered == [call |-> NoCall, result |-> NoResult]

\* ---------------------------------------------------------- collaborators
\* image::io::Reader::open: io::Result<Reader>
Open(path) ==
    IF path.kind = "missing"
    THEN [ok |-> FALSE, err |-> [variant |-> "io", inner |-> "NotFound"]]
    ELSE [ok |-> TRUE, err |-> NoErr]

\* Reader::decode: ImageResult<DynamicImage>
Decode(path) ==
    IF path.kind = "corrupt"
    THEN [ok |-> FALSE, img |-> NoImage, err |-> [variant |-> "Decoding", inner |-> "corrupt"]]
    ELSE [ok |-> TRUE, img |-> path.img, err |-> NoErr]

\* From<io::Error> for ImageError, applied by `?`: wraps the io error
FromIo(e) == [variant |-> "IoError", inner |-> e.inner]

\* one u8 of the converted image: deterministic in the image, the target width
\* and the position; image 0 is uniformly black
Sample(img, w, k) ==
    IF img.seed = 0 THEN 0
    ELSE (img.seed * 53 + w * 7 + k * k * 29 + k * img.seed * 71) % ByteRange

\* Convert::convert(img, w, h) followed by as_bytes(): w*h pixels in row-major
\* order, img.bpp bytes each
ConvertBytes(img, w, h) == [k \in 1..(w * h * img.bpp) |-> Sample(img, w, k)]

\* ------------------------------------------------------- hash_from_img steps
\* bytes.chunks(n).map(|x| x as f64): rows of n samples, the last one shorter
\* when n does not divide the length; u8 -> f64 keeps the value
Chunks(bytes, n) ==
    [r \in 1..((Len(bytes) + n - 1) \div n) |->
        SubSeq(bytes, (r - 1) * n + 1, Min(r * n, Len(bytes)))]

\* dct2_over_matrix(&dct2_over_matrix(m, Axis::Column), Axis::Row)
DctMatrix(matrix) == Dct2OverMatrix(Dct2OverMatrix(matrix, "Column"), "Row")

\* mutant: rows limited by width, columns by height
TakeBlockSwapped(dct, height, width) ==
    [i \in 1..Min(width, Len(dct)) |->
        [j \in 1..Min(height, Len(dct[i])) |-> dct[i][j]]]

\* .iter().take(height).map(|row| row.iter().take(width)...)
TakeBlock(dct, height, width) ==
    [i \in 1..Min(height, Len(dct)) |->
        [j \in 1..Min(width, Len(dct[i])) |-> dct[i][j]]]

\* mutant: the width used for both dimensions
AllocBitsSquare(height, width) == [i \in 1..width |-> [j \in 1..width |-> FALSE]]

\* vec![vec![false; width]; height]
AllocBits(height, width) == [i \in 1..height |-> [j \in 1..width |-> FALSE]]

\* mutant: >= instead of >
ExceedsOrEqual(pixel, med) == 2 * pixel >= med.twice

\* mutant: the comparison inverted
Below(pixel, med) == 2 * pixel < med.twice

\* *pixel > median
Exceeds(pixel, med) == 2 * pixel > med.twice

\* the loops over scaled_matrix writing bits[i][j]
FillBits(alloc, scaled, med) ==
    [i \in 1..Len(alloc) |->
        [j \in 1..Len(alloc[i]) |->
            IF i <= Len(scaled) /\ j <= Len(scaled[i])
            THEN Exceeds(scaled[i][j], med)
            ELSE alloc[i][j]]]

\* what the entry point hands back: ImageHash for hash_from_img, Ok(ImageHash)
\* for hash_from_path
ReturnValue(op, matrix) == IF op = "path" THEN Ok(matrix) ELSE Returned(matrix)

\* ------------------------------------------------------------------ state
VARIABLES
    hasher,            \* the PerceptualHasher the calls are made on
    overflow_checks,   \* whether the build panics on integer overflow
    pc,                \* position of the running call
    call,              \* the running call: entry point, path, image
    hf_width,          \* self.width * self.factor as evaluated
    hf_height,         \* self.height * self.factor as evaluated
    high_freq_bytes,
    high_freq_matrix,
    dct_matrix,
    scaled_matrix,
    median,
    bits,
    result,            \* what the running call returned
    remembered,        \* an earlier completed call and its result
    other              \* a second computation: its hasher and its hash_from_img call

locals == <<hf_width, hf_height, high_freq_bytes, high_freq_matrix, dct_matrix,
            scaled_matrix, median, bits>>
vars == <<hasher, overflow_checks, pc, call, locals, result, remembered, other>>

FreshLocals ==
    /\ hf_width = 0
    /\ hf_height = 0
    /\ high_freq_bytes = <<>>
    /\ high_freq_matrix = <<>>
    /\ dct_matrix = <<>>
    /\ scaled_matrix = <<>>
    /\ median = NoneMedian
    /\ bits = <<>>

ProductOverflows(h) ==
    MulOverflows(h.width, h.factor) \/ MulOverflows(h.height, h.factor)

\* a second computation before its call: a hasher, no image, fresh locals, no
\* result; `overlapped` records that it ran while a call on `hasher` was running
IdleFrame(h) ==
    [hasher |-> h, pc |-> "idle", img |-> NoImage, hf_width |-> 0, hf_height |-> 0,
     high_freq_bytes |-> <<>>, high_freq_matrix |-> <<>>, dct_matrix |-> <<>>,
     scaled_matrix |-> <<>>, median |-> NoneMedian, bits |-> <<>>,
     result |-> NoResult, overlapped |-> FALSE]

\* the images hashed in the two-hasher specification: one byte per pixel
TwoImages == {i \in Images : i.bpp = 1}

\* the hashers a second computation runs on: one of the same configuration,
\* or the widest modelled one
OtherHashers(h) == {h, [width |-> MaxDim, height |-> 1, factor |-> MaxFactor]}

Init ==
    /\ hasher \in Configs
    /\ overflow_checks \in BOOLEAN
    /\ pc = "idle"
    /\ call = NoCall
    /\ FreshLocals
    /\ result = NoResult
    /\ remembered = NoRemembered
    /\ other = IdleFrame(hasher)

\* two hashers, each used for calls of its own (the build only matters where a
\* product overflows)
InitTwo ==
    /\ hasher \in Configs
    /\ overflow_checks \in (IF ProductOverflows(hasher) THEN BOOLEAN ELSE {FALSE})
    /\ pc = "idle"
    /\ call = NoCall
    /\ FreshLocals
    /\ result = NoResult
    /\ remembered = NoRemembered
    /\ other = IdleFrame(hasher)

\* hasher.hash_from_img(&img)
CallImg ==
    /\ pc = "idle"
    /\ \E img \in Images : call' = [op |-> "img", path |-> NoPath, img |-> img]
    /\ pc' = "convert"
    /\ UNCHANGED <<hasher, overflow_checks, other, locals, result, remembered>>

\* hasher.hash_from_path(path)
CallPath ==
    /\ pc = "idle"
    /\ \E path \in Paths : call' = [op |-> "path", path |-> path, img |-> NoImage]
    /\ pc' = "open"
    /\ UNCHANGED <<hasher, overflow_checks, other, locals, result, remembered>>

\* mutant: the decoded image is reduced to one byte per pixel before hashing
OpenDecodeLuma ==
    /\ pc = "open"
    /\ IF ~Open(call.path).ok
       THEN result' = Err(FromIo(Open(call.path).err)) /\ pc' = "done" /\ call' = call
       ELSE IF ~Decode(call.path).ok
       THEN result' = Err(Decode(call.path).err) /\ pc' = "done" /\ call' = call
       ELSE /\ call' = [call EXCEPT !.img = [Decode(call.path).img EXCEPT !.bpp = 1]]
            /\ pc' = "convert"
            /\ result' = result
    /\ UNCHANGED <<hasher, overflow_checks, other, locals, remembered>>

\* mutant: the results of open and decode are unwrapped
OpenDecodeUnwrap ==
    /\ pc = "open"
    /\ IF ~Open(call.path).ok
       THEN result' = Panic("unwrap on Err") /\ pc' = "done" /\ call' = call
       ELSE IF ~Decode(call.path).ok
       THEN result' = Panic("unwrap on Err") /\ pc' = "done" /\ call' = call
       ELSE /\ call' = [call EXCEPT !.img = Decode(call.path).img]
            /\ pc' = "convert"
            /\ result' = result
    /\ UNCHANGED <<hasher, overflow_checks, other, locals, remembered>>

\* match image::io::Reader::open(path)?.decode() { Ok(img) => ..., Err(e) => Err(e) }
OpenDecode ==
    /\ pc = "open"
    /\ IF ~Open(call.path).ok
       THEN result' = Err(FromIo(Open(call.path).err)) /\ pc' = "done" /\ call' = call
       ELSE IF ~Decode(call.path).ok
       THEN result' = Err(Decode(call.path).err) /\ pc' = "done" /\ call' = call
       ELSE /\ call' = [call EXCEPT !.img = Decode(call.path).img]
            /\ pc' = "convert"
            /\ result' = result
    /\ UNCHANGED <<hasher, overflow_checks, other, locals, remembered>>

\* self.width * self.factor or self.height * self.factor leaves u32 in a build
\* with overflow checks: the multiplication panics
ConvertOverflowPanic ==
    /\ pc = "convert"
    /\ overflow_checks
    /\ ProductOverflows(hasher)
    /\ result' = Panic("attempt to multiply with overflow")
    /\ pc' = "done"
    /\ UNCHANGED <<hasher, overflow_checks, other, call, locals, remembered>>

\* let high_freq = self.convert(img, width * factor, height * factor);
\* let high_freq_bytes = high_freq.as_bytes().to_vec();
\* (the products wrap in a build without overflow checks)
Convert ==
    /\ pc = "convert"
    /\ ~(overflow_checks /\ ProductOverflows(hasher))
    /\ hf_width' = WrappingMul(hasher.width, hasher.factor)
    /\ hf_height' = WrappingMul(hasher.height, hasher.factor)
    /\ high_freq_bytes' = ConvertBytes(call.img, hf_width', hf_height')
    /\ pc' = "chunks"
    /\ UNCHANGED <<hasher, overflow_checks, other, call, high_freq_matrix, dct_matrix, scaled_matrix,
                   median, bits, result, remembered>>

\* high_freq_bytes.chunks((width * factor) as usize): chunks(0) panics
ChunksPanic ==
    /\ pc = "chunks"
    /\ hf_width = 0
    /\ result' = Panic("chunk size must be non-zero")
    /\ pc' = "done"
    /\ UNCHANGED <<hasher, overflow_checks, other, call, locals, remembered>>

BuildMatrix ==
    /\ pc = "chunks"
    /\ hf_width > 0
    /\ high_freq_matrix' = Chunks(high_freq_bytes, hf_width)
    /\ pc' = "dct"
    /\ UNCHANGED <<hasher, overflow_checks, other, call, hf_width, hf_height, high_freq_bytes, dct_matrix,
                   scaled_matrix, median, bits, result, remembered>>

Transform ==
    /\ pc = "dct"
    /\ dct_matrix' = DctMatrix(high_freq_matrix)
    /\ pc' = "scale"
    /\ UNCHANGED <<hasher, overflow_checks, other, call, hf_width, hf_height, high_freq_bytes,
                   high_freq_matrix, scaled_matrix, median, bits, result, remembered>>

\* mutant: the block is kept in a scratch buffer that all computations share
RescaleSharedScratch ==
    /\ pc = "scale"
    /\ scaled_matrix' = TakeBlock(dct_matrix, hasher.height, hasher.width)
    /\ other' = [other EXCEPT !.scaled_matrix = scaled_matrix']
    /\ pc' = "median"
    /\ UNCHANGED <<hasher, overflow_checks, call, hf_width, hf_height, high_freq_bytes,
                   high_freq_matrix, dct_matrix, median, bits, result, remembered>>

Rescale ==
    /\ pc = "scale"
    /\ scaled_matrix' = TakeBlock(dct_matrix, hasher.height, hasher.width)
    /\ pc' = "median"
    /\ UNCHANGED <<hasher, overflow_checks, other, call, hf_width, hf_height, high_freq_bytes,
                   high_freq_matrix, dct_matrix, median, bits, result, remembered>>

\* median(&flattened).unwrap() on None
MedianPanic ==
    /\ pc = "median"
    /\ ~Median(FlattenSeq(scaled_matrix)).some
    /\ result' = Panic("unwrap on None")
    /\ pc' = "done"
    /\ UNCHANGED <<hasher, overflow_checks, other, call, locals, remembered>>

TakeMedian ==
    /\ pc = "median"
    /\ Median(FlattenSeq(scaled_matrix)).some
    /\ median' = Median(FlattenSeq(scaled_matrix))
    /\ pc' = "bits"
    /\ UNCHANGED <<hasher, overflow_checks, other, call, hf_width, hf_height, high_freq_bytes,
                   high_freq_matrix, dct_matrix, scaled_matrix, bits, result,
                   remembered>>

Threshold ==
    /\ pc = "bits"
    /\ bits' = FillBits(AllocBits(hasher.height, hasher.width), scaled_matrix, median)
    /\ pc' = "return"
    /\ UNCHANGED <<hasher, overflow_checks, other, call, hf_width, hf_height, high_freq_bytes,
                   high_freq_matrix, dct_matrix, scaled_matrix, median, result,
                   remembered>>

\* ImageHash { matrix: bits }, wrapped in Ok by hash_from_path
Return ==
    /\ pc = "return"
    /\ result' = ReturnValue(call.op, bits)
    /\ pc' = "done"
    /\ UNCHANGED <<hasher, overflow_checks, other, call, locals, remembered>>

\* the call is over and its locals are dropped; the caller may keep the result
Finish ==
    /\ pc = "done"
    /\ pc' = "idle"
    /\ call' = NoCall
    /\ result' = NoResult
    /\ hf_width' = 0
    /\ hf_height' = 0
    /\ high_freq_bytes' = <<>>
    /\ high_freq_matrix' = <<>>
    /\ dct_matrix' = <<>>
    /\ scaled_matrix' = <<>>
    /\ median' = NoneMedian
    /\ bits' = <<>>
    /\ \/ remembered' = [call |-> call, result |-> result]
       \/ remembered' = remembered
    /\ UNCHANGED <<hasher, overflow_checks, other>>

Next ==
    \/ CallImg
    \/ CallPath
    \/ OpenDecode
    \/ ConvertOverflowPanic
    \/ Convert
    \/ ChunksPanic
    \/ BuildMatrix
    \/ Transform
    \/ Rescale
    \/ MedianPanic
    \/ TakeMedian
    \/ Threshold
    \/ Return
    \/ Finish

Spec == Init /\ [][Next]_vars

\* ------------------------------------------- a second, interleaved computation
\* one statement of hash_from_img on the second hasher, on its own locals
StepFrame(f) ==
    CASE f.pc = "convert" ->
            IF overflow_checks /\ ProductOverflows(f.hasher)
            THEN [f EXCEPT !.result = Panic("attempt to multiply with overflow"),
                           !.pc = "done"]
            ELSE LET w == WrappingMul(f.hasher.width, f.hasher.factor)
                     h == WrappingMul(f.hasher.height, f.hasher.factor)
                 IN  [f EXCEPT !.hf_width = w, !.hf_height = h,
                               !.high_freq_bytes = ConvertBytes(f.img, w, h),
                               !.pc = "chunks"]
      [] f.pc = "chunks" ->
            IF f.hf_width = 0
            THEN [f EXCEPT !.result = Panic("chunk size must be non-zero"), !.pc = "done"]
            ELSE [f EXCEPT !.high_freq_matrix = Chunks(f.high_freq_bytes, f.hf_width),
                           !.pc = "dct"]
      [] f.pc = "dct" ->
            [f EXCEPT !.dct_matrix = DctMatrix(f.high_freq_matrix), !.pc = "scale"]
      [] f.pc = "scale" ->
            [f EXCEPT !.scaled_matrix =
                          TakeBlock(f.dct_matrix, f.hasher.height, f.hasher.width),
                      !.pc = "median"]
      [] f.pc = "median" ->
            IF ~Median(FlattenSeq(f.scaled_matrix)).some
            THEN [f EXCEPT !.result = Panic("unwrap on None"), !.pc = "done"]
            ELSE [f EXCEPT !.median = Median(FlattenSeq(f.scaled_matrix)), !.pc = "bits"]
      [] f.pc = "bits" ->
            [f EXCEPT !.bits = FillBits(AllocBits(f.hasher.height, f.hasher.width),
                                        f.scaled_matrix, f.median),
                      !.pc = "return"]
      [] f.pc = "return" ->
            [f EXCEPT !.result = ReturnValue("img", f.bits), !.pc = "done"]

Running == pc \notin {"idle", "done"}

\* other.hasher.hash_from_img(&img)
OtherCallImg ==
    /\ other.pc = "idle"
    /\ \E h \in OtherHashers(hasher), img \in TwoImages :
          other' = [IdleFrame(h) EXCEPT !.img = img, !.pc = "convert"]
    /\ UNCHANGED <<hasher, overflow_checks, pc, call, locals, result, remembered>>

OtherStep ==
    /\ other.pc \notin {"idle", "done"}
    /\ other' = [StepFrame(other) EXCEPT !.overlapped = other.overlapped \/ Running]
    /\ UNCHANGED <<hasher, overflow_checks, pc, call, locals, result, remembered>>

\* the second call is over and its locals are dropped
OtherFinish ==
    /\ other.pc = "done"
    /\ other' = IdleFrame(hasher)
    /\ UNCHANGED <<hasher, overflow_checks, pc, call, locals, result, remembered>>

\* hash_from_img calls on the two hashers, their statements interleaved
NextTwo ==
    \/ CallImg /\ call'.img \in TwoImages
    \/ ConvertOverflowPanic
    \/ Convert
    \/ ChunksPanic
    \/ BuildMatrix
    \/ Transform
    \/ Rescale
    \/ MedianPanic
    \/ TakeMedian
    \/ Threshold
    \/ Return
    \/ Finish /\ remembered' = remembered
    \/ OtherCallImg
    \/ OtherStep
    \/ OtherFinish

SpecTwo == InitTwo /\ [][NextTwo]_vars

\* ----------------------------------------------------------------- claims
HashReturned(r) == r.tag \in {"hash", "Ok"}

CountTrue(matrix) ==
    SumSeq([k \in 1..Len(FlattenSeq(matrix)) |->
                IF FlattenSeq(matrix)[k] THEN 1 ELSE 0])

\* C1: every ImageHash returned under a configuration with width, height and
\* factor > 0 has exactly `height` rows, each of exactly `width` booleans,
\* whatever the input image.
C1_Shape ==
    (pc = "done" /\ HashReturned(result) /\ ValidConfig(hasher)) =>
        /\ Len(result.hash) = hasher.height
        /\ \A i \in 1..Len(result.hash) :
              /\ Len(result.hash[i]) = hasher.width
              /\ \A j \in 1..Len(result.hash[i]) : result.hash[i][j] \in BOOLEAN

C1_Witness ==
    /\ pc = "done"
    /\ result.tag = "hash"
    /\ hasher.width > hasher.height
    /\ hasher.factor > 1
    /\ Len(result.hash) = hasher.height
    /\ Len(result.hash[1]) = hasher.width

\* C2: in a returned hash the bit at (i, j) of the selected block is true
\* exactly when the coefficient at (i, j) is strictly greater than the median
\* of the block's coefficients; a coefficient equal to the median gives false.
C2_StrictlyAboveMedian ==
    (pc = "done" /\ HashReturned(result)) =>
        LET med == Median(FlattenSeq(scaled_matrix))
        IN  /\ med.some
            /\ \A i \in 1..Len(scaled_matrix) : \A j \in 1..Len(scaled_matrix[i]) :
                  /\ result.hash[i][j] <=> (2 * scaled_matrix[i][j] > med.twice)
                  /\ (2 * scaled_matrix[i][j] = med.twice) => ~result.hash[i][j]

C2_Witness ==
    /\ pc = "done"
    /\ result.tag = "hash"
    /\ \E i \in 1..Len(scaled_matrix) : \E j \in 1..Len(scaled_matrix[i]) :
          /\ 2 * scaled_matrix[i][j] = Median(FlattenSeq(scaled_matrix)).twice
          /\ ~result.hash[i][j]
    /\ \E i \in 1..Len(scaled_matrix) : \E j \in 1..Len(scaled_matrix[i]) :
          /\ 2 * scaled_matrix[i][j] > Median(FlattenSeq(scaled_matrix)).twice
          /\ result.hash[i][j]

\* C3: hash_from_path on a path that cannot be opened, or whose contents do
\* not decode, ends with Err carrying the collaborator's error (the io error
\* inside ImageError::IoError, the decode error as it is), never panics and
\* builds no hash; Ok is returned only for a path that opened and decoded.
C3_ErrorPropagation ==
    (pc = "done" /\ call.op = "path") =>
        /\ call.path.kind = "missing" =>
              /\ result = Err([variant |-> "IoError", inner |-> "NotFound"])
              /\ bits = <<>>
        /\ call.path.kind = "corrupt" =>
              /\ result = Err([variant |-> "Decoding", inner |-> "corrupt"])
              /\ bits = <<>>
        /\ result.tag = "Ok" => call.path.kind = "image"

C3_Witness ==
    /\ pc = "done"
    /\ call.op = "path"
    /\ call.path.kind = "missing"
    /\ result.tag = "Err"
    /\ ValidConfig(hasher)

\* C4: for a path that opens and decodes, hash_from_path ends as hash_from_img
\* does on the image the file holds, under the same hasher: Ok(h) where
\* hash_from_img returned h (and the same panic where it panicked).
PathMatchesImg(p, g) ==
    (p.call.op = "path" /\ g.call.op = "img" /\ p.call.path.kind = "image"
        /\ p.call.path.img = g.call.img) =>
        IF g.result.tag = "hash"
        THEN p.result = Ok(g.result.hash)
        ELSE p.result = g.result

C4_PathEqualsImg ==
    pc = "done" =>
        /\ PathMatchesImg([call |-> call, result |-> result], remembered)
        /\ PathMatchesImg(remembered, [call |-> call, result |-> result])

C4_Witness ==
    /\ pc = "done"
    /\ call.op = "path"
    /\ remembered.call.op = "img"
    /\ call.path.kind = "image"
    /\ call.path.img = remembered.call.img
    /\ call.path.img.bpp = 2
    /\ result = Ok(remembered.result.hash)
    /\ CountTrue(result.hash) > 0

\* C5: two calls of hash_from_img on the same image under the same
\* configuration, made on two hashers with their statements interleaved in any
\* order and with any other calls before and in between, return identical
\* values; no statement of either call changes a hasher's configuration or
\* writes a local of the other call, and a finished call leaves nothing behind.
SameInputSameResult ==
    (pc = "done" /\ other.pc = "done" /\ call.op = "img"
        /\ other.hasher = hasher /\ other.img = call.img) => other.result = result

NothingRetained ==
    /\ pc = "idle" => FreshLocals
    /\ other.pc = "idle" => other = IdleFrame(hasher)

C6_LengthMismatchFailsLoudly ==
    (pc = "done" /\ Len(high_freq_bytes) # hf_width * hf_height) =>
        result.tag = "panic"

\* C7 (as claimed): with width, height, factor all > 0 and a buffer of exactly
\* (width*factor)*(height*factor) samples, hash_from_img returns an ImageHash
\* and never panics.
C7_TotalOnValidInput ==
    (pc = "done" /\ call.op = "img" /\ ValidConfig(hasher) /\ call.img.bpp = 1) =>
        result.tag = "hash"

\* C8 (as claimed): every configuration on which a hash operation is invoked
\* has width > 0, height > 0 and factor > 0.
C8_ConfigPositive == pc # "idle" => ValidConfig(hasher)

\* C9: given a coefficient matrix of height*factor rows by width*factor
\* columns, the selected block has `height` rows and `width` columns and its
\* (i, j) entry is the coefficient matrix's (i, j) entry.
FullCoefficientMatrix ==
    /\ ValidConfig(hasher)
    /\ ~ProductOverflows(hasher)
    /\ Len(dct_matrix) = hasher.height * hasher.factor
    /\ \A r \in 1..Len(dct_matrix) : Len(dct_matrix[r]) = hasher.width * hasher.factor

C9_TopLeftBlock ==
    (pc \in {"median", "bits", "return"} /\ FullCoefficientMatrix) =>
        /\ Len(scaled_matrix) = hasher.height
        /\ \A i \in 1..Len(scaled_matrix) :
              /\ Len(scaled_matrix[i]) = hasher.width
              /\ \A j \in 1..Len(scaled_matrix[i]) :
                    scaled_matrix[i][j] = dct_matrix[i][j]

C9_Witness ==
    /\ pc = "median"
    /\ FullCoefficientMatrix
    /\ hasher.height < hasher.width
    /\ hasher.factor > 1
    /\ Len(scaled_matrix) = hasher.height
    /\ \E i \in 1..Len(scaled_matrix) : \E j \in 1..Len(scaled_matrix[i]) :
          i # j /\ scaled_matrix[i][j] # 0

\* C10: a returned hash has at most floor(width*height / 2) true bits, and a
\* block whose coefficients are all equal hashes to all-false.
C10_AtMostHalfTrue ==
    (pc = "done" /\ HashReturned(result) /\ ValidConfig(hasher)) =>
        /\ CountTrue(result.hash) <= (hasher.width * hasher.height) \div 2
        /\ (\A i \in 1..Len(scaled_matrix) : \A j \in 1..Len(scaled_matrix[i]) :
                scaled_matrix[i][j] = scaled_matrix[1][1])
              => CountTrue(result.hash) = 0

C10_Witness ==
    /\ pc = "done"
    /\ result.tag = "hash"
    /\ hasher.width * hasher.height >= 4
    /\ CountTrue(result.hash) = (hasher.width * hasher.height) \div 2
====
